---- MODULE Spec2Model ----
(***************************************************************************)
(* Model of gen_python_dependencies.py: one run of the dependency          *)
(* generator on one source file.  Text (file names, source lines, output   *)
(* lines) is modelled as sequences of one-character strings so that the    *)
(* regular expressions, strip/split/join and the prefix test of the code   *)
(* are computed on characters, as the code computes them.                  *)
(***************************************************************************)
EXTENDS Integers, Sequences, FiniteSets, TLC

VARIABLES argv, content, pc, line_number, pending, inputs_was_set, has_tests,
          module, stdout, stderr, exit_code, executed

vars == <<argv, content, pc, line_number, pending, inputs_was_set, has_tests,
          module, stdout, stderr, exit_code, executed>>

(***************************************************************************)
(* Bounds of the model.                                                    *)
(***************************************************************************)
MaxLines == 3
MaxInputs == 2

(***************************************************************************)
(* Text helpers.                                                           *)
(***************************************************************************)
IsSpace(c) == c \in {" ", "\t", "\n"}

\* s[i..j], empty when j < i
Slice(s, i, j) == [k \in 1..(j - i + 1) |-> s[i + k - 1]]

\* str.startswith
StartsWith(s, prefix) ==
    /\ Len(prefix) <= Len(s)
    /\ \A k \in 1..Len(prefix) : s[k] = prefix[k]

\* the literal lit stands in s at position i
HasLit(s, i, lit) ==
    /\ i + Len(lit) - 1 <= Len(s)
    /\ \A k \in 1..Len(lit) : s[i + k - 1] = lit[k]

SpaceAt(s, i) == i <= Len(s) /\ IsSpace(s[i])

\* greedy \s* from position i: the first position at or after i holding no whitespace
RECURSIVE SkipWs(_, _)
SkipWs(s, i) == IF SpaceAt(s, i) THEN SkipWs(s, i + 1) ELSE i

\* greedy [^;#]* from position i: first position at or after i holding ; or # (or the end)
RECURSIVE RunEnd(_, _)
RunEnd(s, i) ==
    IF i <= Len(s) /\ s[i] \notin {";", "#"} THEN RunEnd(s, i + 1) ELSE i

\* greedy [^\s;#]* from position i
RECURSIVE WordEnd(_, _)
WordEnd(s, i) ==
    IF i <= Len(s) /\ s[i] \notin {";", "#"} /\ ~IsSpace(s[i])
    THEN WordEnd(s, i + 1) ELSE i

\* str.strip()
RECURSIVE RStrip(_)
RStrip(s) ==
    IF s # <<>> /\ IsSpace(s[Len(s)]) THEN RStrip(SubSeq(s, 1, Len(s) - 1)) ELSE s

Strip(s) == LET t == RStrip(s) IN Slice(t, SkipWs(t, 1), Len(t))

\* str.split(',')
RECURSIVE SplitFrom(_, _, _)
SplitFrom(s, i, cur) ==
    IF i > Len(s) THEN <<cur>>
    ELSE IF s[i] = "," THEN <<cur>> \o SplitFrom(s, i + 1, <<>>)
    ELSE SplitFrom(s, i + 1, Append(cur, s[i]))

Split(s) == SplitFrom(s, 1, <<>>)

\* ' '.join(entries)
RECURSIVE Join(_)
Join(entries) ==
    IF entries = <<>> THEN <<>>
    ELSE IF Len(entries) = 1 THEN entries[1]
    ELSE entries[1] \o <<" ">> \o Join(Tail(entries))

\* list(str): one entry per character
ListOfStr(s) == [k \in 1..Len(s) |-> <<s[k]>>]

\* decimal digits of a natural number, as f'{n}' formats it
Digit(d) == <<"0", "1", "2", "3", "4", "5", "6", "7", "8", "9">>[d + 1]

RECURSIVE Decimal(_)
Decimal(n) == IF n < 10 THEN <<Digit(n)>> ELSE Decimal(n \div 10) \o <<Digit(n % 10)>>

RECURSIVE Flatten(_)
Flatten(ss) == IF ss = <<>> THEN <<>> ELSE ss[1] \o Flatten(Tail(ss))

IsPrefix(s, t) == Len(s) <= Len(t) /\ SubSeq(t, 1, Len(s)) = s

Max(S) == CHOOSE x \in S : \A y \in S : y <= x

(***************************************************************************)
(* The patterns of the line scanner.                                       *)
(***************************************************************************)
KwImport == <<"i", "m", "p", "o", "r", "t">>
KwFrom == <<"f", "r", "o", "m">>
KwAs == <<"a", "s">>
KwInputs == <<"I", "N", "P", "U", "T", "S">>
KwDefTest == <<"t", "e", "s", "t", "_">>
KwDef == <<"d", "e", "f">>

\* \s*import\s+ : the positions where the group after it may start.  \s+ is
\* greedy and gives characters back only to let the rest match.
ImportGroupStarts(line) ==
    LET p0 == SkipWs(line, 1)
        p1 == p0 + Len(KwImport)
    IN  IF HasLit(line, p0, KwImport) /\ SpaceAt(line, p1)
        THEN {g \in (p1 + 1)..SkipWs(line, p1) : g <= Len(line) /\ line[g] \notin {";", "#"}}
        ELSE {}

\* \s+as\s at position e
AsTailAt(line, e) ==
    /\ SpaceAt(line, e)
    /\ HasLit(line, SkipWs(line, e), KwAs)
    /\ SpaceAt(line, SkipWs(line, e) + Len(KwAs))

\* IMPORT_AS_PATTERN = \s*import\s+([^;#]+)\s+as\s : the <<start, end>> of
\* group 1 for every way the pattern matches
ImportAsMatches(line) ==
    {ge \in ImportGroupStarts(line) \X (1..Len(line)) :
        /\ ge[1] <= ge[2]
        /\ ge[2] < RunEnd(line, ge[1])
        /\ AsTailAt(line, ge[2] + 1)}

\* what re.match gives when the pattern does not match (a group of a match
\* is never empty: each group is a + repetition)
NoMatch == <<>>

\* group 1 of re.match(IMPORT_AS_PATTERN, line), or NoMatch: the latest start,
\* then the longest group (both quantifiers are greedy)
ImportAsGroup(line) ==
    LET ms == ImportAsMatches(line) IN
    IF ms = {} THEN NoMatch
    ELSE LET g == Max({ge[1] : ge \in ms})
             e == Max({ge[2] : ge \in {x \in ms : x[1] = g}})
         IN  Slice(line, g, e)

\* group 1 of re.match(IMPORT_PATTERN, line), or NoMatch
\* IMPORT_PATTERN = \s*import\s+([^;#]+)
ImportGroup(line) ==
    LET gs == ImportGroupStarts(line) IN
    IF gs = {} THEN NoMatch
    ELSE LET g == Max(gs) IN Slice(line, g, RunEnd(line, g) - 1)

\* group 1 of re.match(FROM_IMPORT_PATTERN, line), or NoMatch
\* FROM_IMPORT_PATTERN = \s*from\s+([^\s;#]+)\s+import\s
FromImportGroup(line) ==
    LET p0 == SkipWs(line, 1)
        p1 == p0 + Len(KwFrom)
        g == SkipWs(line, p1)
        e == WordEnd(line, g)
        w == SkipWs(line, e)
    IN  IF /\ HasLit(line, p0, KwFrom)
           /\ SpaceAt(line, p1)
           /\ e > g
           /\ SpaceAt(line, e)
           /\ HasLit(line, w, KwImport)
           /\ SpaceAt(line, w + Len(KwImport))
        THEN Slice(line, g, e - 1)
        ELSE NoMatch

\* re.match(INPUTS_SET, line), INPUTS_SET = \s*INPUTS\s*=
MatchesInputsSet(line) ==
    LET p0 == SkipWs(line, 1)
        p1 == SkipWs(line, p0 + Len(KwInputs))
    IN  HasLit(line, p0, KwInputs) /\ HasLit(line, p1, <<"=">>)

\* re.match(HAS_TESTS, line), HAS_TESTS = \s*def\s+test_
MatchesHasTests(line) ==
    LET p0 == SkipWs(line, 1)
        p1 == p0 + Len(KwDef)
    IN  /\ HasLit(line, p0, KwDef)
        /\ SpaceAt(line, p1)
        /\ HasLit(line, SkipWs(line, p1), KwDefTest)

\* the module names one line hands to generate_import_dependency, in call
\* order (first matching shape wins: aliased, plain, from)
LineModuleNames(line) ==
    IF ImportAsGroup(line) # NoMatch THEN <<ImportAsGroup(line)>>
    ELSE IF ImportGroup(line) # NoMatch THEN Split(ImportGroup(line))
    ELSE IF FromImportGroup(line) # NoMatch THEN <<FromImportGroup(line)>>
    ELSE <<>>

(***************************************************************************)
(* The environment of a run: the working directory, the files that exist,  *)
(* and what the interpreter's module lookup finds for each module name.    *)
(***************************************************************************)
\* REQUIRED_PATH_PREFIX = os.getcwd()
REQUIRED_PATH_PREFIX == <<"/", "p">>

\* sys.argv[0]
Prog == <<"g", "e", "n">>

\* the source file that exists, and a path that names no file
PyFile == <<"f", ".", "p", "y">>
MissingFile == <<"g", ".", "p", "y">>

\* os.path.isfile
IsFile(path) == path = PyFile

\* the absolute path of the analysed file (relative paths start at the
\* working directory)
AbsPath(python_file) == REQUIRED_PATH_PREFIX \o <<"/">> \o python_file

\* The modules of the environment:
\*   m  a module of the project, /p/m.py
\*   c  a module of the project in a directory below, /p/d/c.py, whose own
\*      top-level code imports f
\*   f  the analysed file itself, /p/f.py
\*   q  a module in /pq, a directory beside the project whose name begins
\*      with the project's
\*   o  a module of an external package, /u/o.py
\*   s  a module built into the interpreter: it has no __file__
\* Every other name is the name of no module.
ModuleFiles ==
    (<<"m">> :> <<"/", "p", "/", "m", ".", "p", "y">>) @@ (<<"c">> :> <<"/", "p", "/", "d", "/",
        "c", ".", "p", "y">>) @@ (<<"f">> :> <<"/", "p", "/", "f", ".", "p", "y">>)
    @@ (<<"q">> :> <<"/", "p", "q", "/", "q", ".", "p", "y">>) @@ (<<"o">> :> <<"/", "u", "/",
        "o", ".", "p", "y">>)

BuiltinModules == {<<"s">>}

\* the names the top-level code of a module file imports in its turn
ModuleImports(name) == IF name = <<"c">> THEN {<<"f">>} ELSE {}

\* mod = __import__(clean_name): what the call gives
\*   [kind |-> "ValueError"]           the name is empty
\*   [kind |-> "ModuleNotFoundError"]  no module has the name
\*   [kind |-> "builtin"]              a module without __file__
\*   [kind |-> "file", file |-> path]  a module with mod.__file__ = path
Import(clean_name) ==
    IF clean_name = <<>> THEN [kind |-> "ValueError"]
    ELSE IF clean_name \in BuiltinModules THEN [kind |-> "builtin"]
    ELSE IF clean_name \in DOMAIN ModuleFiles
         THEN [kind |-> "file", file |-> ModuleFiles[clean_name]]
    ELSE [kind |-> "ModuleNotFoundError"]

\* the files whose code __import__(clean_name) runs: the module's file and
\* the files of the modules it imports in its turn (a module is run once)
RECURSIVE ImportRuns(_, _)
ImportRuns(names, seen) ==
    LET new == {n \in names : n \in DOMAIN ModuleFiles} \ seen IN
    IF new = {} THEN {ModuleFiles[n] : n \in seen}
    ELSE ImportRuns(UNION {ModuleImports(n) : n \in new}, seen \cup new)

\* the traceback the interpreter writes for an exception nothing catches
Traceback == <<"T", "r", "a", "c", "e", "b", "a", "c", "k">>

(***************************************************************************)
(* The inputs of the model: command lines, file contents, and what         *)
(* loading the analysed file leaves in its module.                         *)
(***************************************************************************)
ArgvChoices == {<<Prog>>, <<Prog, PyFile>>, <<Prog, MissingFile>>, <<Prog, PyFile, MissingFile>>}

Catalog == {
    <<"i", "m", "p", "o", "r", "t", " ", "m", "\n">>,
    <<"i", "m", "p", "o", "r", "t", " ", "c", ",", "o", ",", " ", "m", "\n">>,
    <<"i", "m", "p", "o", "r", "t", " ", "c", " ", "a", "s", " ", "k", "\n">>,
    <<"f", "r", "o", "m", " ", "q", " ", "i", "m", "p", "o", "r", "t", " ", "k", "\n">>,
    <<" ", "i", "m", "p", "o", "r", "t", " ", "m", ",", " ", "z", " ", ",", "c", "\n">>,
    <<"i", "m", "p", "o", "r", "t", " ", "s", ",", "f", " ", "#", "\n">>,
    <<"i", "m", "p", "o", "r", "t", " ", "m", ",", " ", "s", " ", "a", "s", " ", "k", "\n">>,
    <<"i", "m", "p", "o", "r", "t", " ", "m", ",", "\n">>,
    <<"I", "N", "P", "U", "T", "S", "=", "\n">>,
    <<"d", "e", "f", " ", "t", "e", "s", "t", "_", "\n">>,
    <<"i", "m", "p", "o", "r", "t", "x", "\n">> }

RECURSIVE SeqsUpTo(_, _)
SeqsUpTo(S, n) ==
    IF n = 0 THEN {<<>>}
    ELSE LET shorter == SeqsUpTo(S, n - 1) IN
         shorter \cup {Append(s, x) : s \in shorter, x \in S}

Files == SeqsUpTo(Catalog, MaxLines)

InputEntries == {<<"a">>, <<"b", "c">>}
InputChars == {"a", "b"}

\* the module object after spec.loader.exec_module(module):
\*   raise   executing the file raised an exception
\*   noattr  'INPUTS' is not in dir(module)
\*   list    module.INPUTS is a list of strings
\*   str     module.INPUTS is one string
LoadResults ==
    {[kind |-> "raise"], [kind |-> "noattr"]}
    \cup {[kind |-> "list", val |-> v] : v \in SeqsUpTo(InputEntries, MaxInputs)}
    \cup {[kind |-> "str", val |-> v] : v \in SeqsUpTo(InputChars, MaxInputs)}

(***************************************************************************)
(* The lines the program prints.                                           *)
(***************************************************************************)
UsageLine(prog) == prog \o <<":", " ", "E", "r", "r", "o", "r", ":", " ", "r", "e", "q", "u", "i",
        "r", "e", "s", " ", "e", "x", "a", "c", "t", "l", "y", " ", "o", "n", "e", " ", "a", "r",
            "g", "u", "m", "e", "n", "t">>

MissingFileLine(python_file) == <<"F", "i", "l", "e", " ", "d", "o", "e", "s", " ", "n", "o", "t",
        " ", "e", "x", "i", "s", "t", ":", " ">> \o python_file

NotFoundLine(python_file, n, clean_name) ==
    python_file \o <<":">> \o Decimal(n) \o <<" ", "-", " ", "E", "r", "r", "o", "r", ",", " ",
        "m", "o", "d", "u", "l", "e", " ", "n", "o", "t", " ", "f", "o", "u", "n", "d", ":",
            " ">> \o clean_name

ScLine(python_file, dependency) ==
    <<"d", "e", "p", "s", "/">> \o python_file \o <<".", "s", "c", ":", " ", "d", "e", "p", "s",
        "/">> \o dependency \o <<".", "s", "c">>

EcLine(python_file, dependency) ==
    <<"d", "e", "p", "s", "/">> \o python_file \o <<".", "e", "c", ":", " ", "d", "e", "p", "s",
        "/">> \o dependency \o <<".", "e", "c">>

TestLine(python_file) == <<"t", "e", "s", "t", ":", " ", "d", "e", "p", "s",
        "/">> \o python_file \o <<".", "t", "e", "s", "t">>

InputsLine(python_file, formatted_inputs) ==
    <<"d", "e", "p", "s", "/">> \o python_file \o <<".", "i", "n", "p", "u", "t", "s", ":",
        " ">> \o formatted_inputs

EcInputsLine(python_file) ==
    <<"d", "e", "p", "s", "/">> \o python_file \o <<".", "e", "c", ":", " ", "d", "e", "p", "s",
        "/">> \o python_file \o <<".", "i", "n", "p", "u", "t", "s">>

(***************************************************************************)
(* The run.                                                                *)
(***************************************************************************)
python_file == argv[2]

\* exit_code = -1: the process has not ended
Init ==
    /\ argv \in ArgvChoices
    /\ content \in Files
    /\ pc = "start"
    /\ line_number = -1
    /\ pending = <<>>
    /\ inputs_was_set = FALSE
    /\ has_tests = FALSE
    /\ module = [kind |-> "unloaded"]
    /\ stdout = <<>>
    /\ stderr = <<>>
    /\ exit_code = -1
    /\ executed = {}

\* the process ends with the given status
Exit(status) == pc' = "done" /\ exit_code' = status

\* if __name__ == "__main__": the argument count
Start ==
    /\ pc = "start"
    /\ IF Len(argv) # 2
       THEN /\ stdout' = Append(stdout, UsageLine(argv[1]))
            /\ Exit(1)
       ELSE /\ pc' = "main"
            /\ UNCHANGED <<stdout, exit_code>>
    /\ UNCHANGED <<argv, content, line_number, pending, inputs_was_set, has_tests,
                   module, stderr, executed>>

\* main: the file must exist
Main ==
    /\ pc = "main"
    /\ IF ~IsFile(python_file)
       THEN /\ stderr' = Append(stderr, MissingFileLine(python_file))
            /\ Exit(1)
       ELSE /\ pc' = "scan"
            /\ UNCHANGED <<stderr, exit_code>>
    /\ UNCHANGED <<argv, content, line_number, pending, inputs_was_set, has_tests,
                   module, stdout, executed>>

\* has_tests after a line: if re.match(HAS_TESTS, line): has_tests = True
HasTestsAfter_last_line_decides(flag, line) == MatchesHasTests(line)

HasTestsAfter(flag, line) == flag \/ MatchesHasTests(line)

\* process_imports: one turn of the loop over the lines, up to the calls of
\* generate_import_dependency the line asks for
ScanLine ==
    /\ pc = "scan"
    /\ line_number + 1 < Len(content)
    /\ LET line == content[line_number + 2] IN
        /\ line_number' = line_number + 1
        /\ inputs_was_set' = (inputs_was_set \/ MatchesInputsSet(line))
        /\ has_tests' = HasTestsAfter(has_tests, line)
        /\ pending' = LineModuleNames(line)
        /\ pc' = IF LineModuleNames(line) = <<>> THEN "scan" ELSE "import"
    /\ UNCHANGED <<argv, content, module, stdout, stderr, exit_code, executed>>

\* dependency = mod_file[len(REQUIRED_PATH_PREFIX)+1:]
Dependency(mod_file) == Slice(mod_file, Len(REQUIRED_PATH_PREFIX) + 2, Len(mod_file))

\* what generate_import_dependency prints for a module __import__ found
DependencyLines(file, mod) ==
    IF mod.kind = "builtin" THEN <<>>
    ELSE IF ~StartsWith(mod.file, REQUIRED_PATH_PREFIX) THEN <<>>
    ELSE <<ScLine(file, Dependency(mod.file)), EcLine(file, Dependency(mod.file))>>

\* generate_import_dependency when __import__ raises ModuleNotFoundError
ModuleNotFound_scan_goes_on(clean_name) ==
    /\ stderr' = Append(stderr, NotFoundLine(python_file, line_number, clean_name))
    /\ pending' = Tail(pending)
    /\ pc' = IF Tail(pending) = <<>> THEN "scan" ELSE "import"
    /\ UNCHANGED <<stdout, executed, exit_code>>

ModuleNotFound(clean_name) ==
    /\ stderr' = Append(stderr, NotFoundLine(python_file, line_number, clean_name))
    /\ Exit(1)
    /\ UNCHANGED <<pending, stdout, executed>>

\* generate_import_dependency when __import__ gives a module
ModuleFound_rules_once(clean_name, mod) ==
    /\ executed' = executed \cup ImportRuns({clean_name}, {})
    /\ LET lines == DependencyLines(python_file, mod) IN
        stdout' = IF lines # <<>> /\ \E i \in 1..Len(stdout) : stdout[i] = lines[1]
                  THEN stdout
                  ELSE stdout \o lines
    /\ pending' = Tail(pending)
    /\ pc' = IF Tail(pending) = <<>> THEN "scan" ELSE "import"
    /\ UNCHANGED <<stderr, exit_code>>

ModuleFound(clean_name, mod) ==
    /\ executed' = executed \cup ImportRuns({clean_name}, {})
    /\ stdout' = stdout \o DependencyLines(python_file, mod)
    /\ pending' = Tail(pending)
    /\ pc' = IF Tail(pending) = <<>> THEN "scan" ELSE "import"
    /\ UNCHANGED <<stderr, exit_code>>

\* generate_import_dependency(python_file, module_name, line_number) for the
\* next module name of the line
GenerateImportDependency ==
    /\ pc = "import"
    /\ LET clean_name == Strip(Head(pending))
           mod == Import(clean_name)
       IN  CASE mod.kind = "ValueError" ->
                  /\ stderr' = Append(stderr, Traceback)
                  /\ Exit(1)
                  /\ UNCHANGED <<pending, stdout, executed>>
             [] mod.kind = "ModuleNotFoundError" -> ModuleNotFound(clean_name)
             [] OTHER -> ModuleFound(clean_name, mod)
    /\ UNCHANGED <<argv, content, line_number, inputs_was_set, has_tests, module>>

\* if has_tests: print(f'test: deps/{python_file}.test')
TestLines_unconditional(file, flag) == <<TestLine(file)>>

TestLines(file, flag) == IF flag THEN <<TestLine(file)>> ELSE <<>>

\* process_imports after the last line, and main's test of what it returns
ScanEnd ==
    /\ pc = "scan"
    /\ line_number + 1 = Len(content)
    /\ stdout' = stdout \o TestLines(python_file, has_tests)
    /\ IF inputs_was_set
       THEN pc' = "inputs" /\ UNCHANGED exit_code
       ELSE Exit(0)
    /\ UNCHANGED <<argv, content, line_number, pending, inputs_was_set, has_tests,
                   module, stderr, executed>>

\* formatted_inputs of process_inputs
FormattedInputs_string_kept_whole(loaded) ==
    Join(IF loaded.kind = "str" THEN <<loaded.val>> ELSE loaded.val)

FormattedInputs(loaded) ==
    Join(IF loaded.kind = "str" THEN ListOfStr(loaded.val) ELSE loaded.val)

\* what process_inputs prints for the loaded module
InputsLines(file, loaded) ==
    IF loaded.kind = "noattr" THEN <<>>
    ELSE <<InputsLine(file, FormattedInputs(loaded))>>

\* process_inputs(python_file)
ProcessInputs ==
    /\ pc = "inputs"
    /\ \E loaded \in LoadResults :
        /\ module' = loaded
        /\ executed' = executed \cup {AbsPath(python_file)}
        /\ IF loaded.kind = "raise"
           THEN /\ stderr' = Append(stderr, Traceback)
                /\ Exit(1)
                /\ UNCHANGED stdout
           ELSE /\ stdout' = stdout \o InputsLines(python_file, loaded)
                /\ pc' = "ec_inputs"
                /\ UNCHANGED <<stderr, exit_code>>
    /\ UNCHANGED <<argv, content, line_number, pending, inputs_was_set, has_tests>>

\* main after process_inputs: the rule on the inputs target, and the end
MainInputsRule ==
    /\ pc = "ec_inputs"
    /\ stdout' = Append(stdout, EcInputsLine(python_file))
    /\ Exit(0)
    /\ UNCHANGED <<argv, content, line_number, pending, inputs_was_set, has_tests,
                   module, stderr, executed>>

Next ==
    \/ Start
    \/ Main
    \/ ScanLine
    \/ GenerateImportDependency
    \/ ScanEnd
    \/ ProcessInputs
    \/ MainInputsRule

Spec == Init /\ [][Next]_vars

TypeOK ==
    /\ pc \in {"start", "main", "scan", "import", "inputs", "ec_inputs", "done"}
    /\ exit_code \in {-1, 0, 1}
    /\ (pc = "done") = (exit_code # -1)
    /\ line_number \in -1..(Len(content) - 1)

(***************************************************************************)
(* What the claims speak of, stated on the file as a whole.                *)
(***************************************************************************)
\* the command line names one file and the file exists
Runnable == Len(argv) = 2 /\ IsFile(argv[2])

\* the module references of the file in source order: by line from the top,
\* within a line from the left; line counts lines from 1
\* (the names of each line of the catalog, whitespace around them removed,
\* are computed once)
CleanNamesOf ==
    [l \in Catalog |->
        LET names == LineModuleNames(l) IN [k \in 1..Len(names) |-> Strip(names[k])]]

RECURSIVE ReferencesFrom(_, _)
ReferencesFrom(lines, i) ==
    IF i > Len(lines) THEN <<>>
    ELSE LET names == CleanNamesOf[lines[i]] IN
         [k \in 1..Len(names) |-> [line |-> i, name |-> names[k]]]
         \o ReferencesFrom(lines, i + 1)

\* the first of the references refs whose lookup raises an exception, 0
\* when none does
RECURSIVE FirstStopFrom(_, _)
FirstStopFrom(refs, k) ==
    IF k > Len(refs) THEN 0
    ELSE IF Import(refs[k].name).kind \in {"ValueError", "ModuleNotFoundError"} THEN k
    ELSE FirstStopFrom(refs, k + 1)

\* the references of the analysed file and the first that stops the scan
Scan ==
    LET refs == ReferencesFrom(content, 1) IN [refs |-> refs, stop |-> FirstStopFrom(refs, 1)]

References == Scan.refs
FirstStop == Scan.stop

\* the scan reaches a reference whose module is not found
ReachesNotFound ==
    /\ Runnable
    /\ LET scan == Scan IN
        scan.stop # 0 /\ Import(scan.refs[scan.stop].name).kind = "ModuleNotFoundError"

\* the rules of the first n references, each reference's rules in its turn
RulesOfFirst(n) ==
    LET refs == References IN
    Flatten([k \in 1..n |-> DependencyLines(PyFile, Import(refs[k].name))])

\* the rules of all the references the scan gets to
RulesOfScan ==
    LET scan == Scan IN
    Flatten([k \in 1..(IF scan.stop = 0 THEN Len(scan.refs) ELSE scan.stop - 1) |->
                DependencyLines(PyFile, Import(scan.refs[k].name))])

ScanCompleted == Runnable /\ FirstStop = 0 /\ pc \in {"inputs", "ec_inputs", "done"}

HasImportLine == \E i \in 1..Len(content) : CleanNamesOf[content[i]] # <<>>
HasInputsMarker == \E i \in 1..Len(content) : MatchesInputsSet(content[i])
TestMarkerLines == {i \in 1..Len(content) : MatchesHasTests(content[i])}

Occurrences(lines, l) == Cardinality({i \in 1..Len(lines) : lines[i] = l})

InputsPrefix == InputsLine(PyFile, <<>>)

(***************************************************************************)
(* C1.  When the scan reaches a module reference that is not found, the    *)
(* run ends at once with exit status 1 and one error line on the error     *)
(* stream; standard output holds the rules of the earlier references and   *)
(* never anything more (no later rule, no test-target line, no inputs      *)
(* rule), and the file is not loaded for its data inputs.                  *)
(***************************************************************************)
C1_NotFoundStopsRun ==
    ReachesNotFound =>
        /\ IsPrefix(stdout, RulesOfFirst(FirstStop - 1))
        /\ module.kind = "unloaded"
        /\ stderr # <<>> => pc = "done"
        /\ pc = "done" =>
            /\ exit_code = 1
            /\ Len(stderr) = 1
            /\ stderr[1] # Traceback
            /\ stdout = RulesOfFirst(FirstStop - 1)

\* a run stopped by a reference not found, with rules of earlier references
\* written, references after the failing one, and a test marker and an
\* inputs marker in the file
C1_Witness ==
    /\ ReachesNotFound
    /\ pc = "done"
    /\ stdout # <<>>
    /\ FirstStop < Len(References)
    /\ TestMarkerLines # {}
    /\ HasInputsMarker

(***************************************************************************)
(* C2 as claimed.  A rule is written for a reference only if its module's  *)
(* file lies in the project root directory or below it, and the rule names *)
(* the file's path relative to the project root; other references write    *)
(* nothing.                                                                *)
(***************************************************************************)
\* the directory REQUIRED_PATH_PREFIX or a directory below it holds the file
LiesUnderRoot(file) == StartsWith(file, REQUIRED_PATH_PREFIX \o <<"/">>)

RelativeToRoot(file) == SubSeq(file, Len(REQUIRED_PATH_PREFIX \o <<"/">>) + 1, Len(file))

ProjectRulesOf(name) ==
    LET mod == Import(name) IN
    IF mod.kind = "file" /\ LiesUnderRoot(mod.file)
    THEN <<ScLine(PyFile, RelativeToRoot(mod.file)), EcLine(PyFile, RelativeToRoot(mod.file))>>
    ELSE <<>>

C2_OnlyFilesUnderRoot ==
    (Runnable /\ pc \in {"scan", "import"}) =>
        LET refs == References IN
        IsPrefix(stdout, Flatten([k \in 1..Len(refs) |-> ProjectRulesOf(refs[k].name)]))

(***************************************************************************)
(* C3 as claimed.  The code of the analysed file is run only if the scan   *)
(* saw a data-inputs marker line in it, and only after the whole scan.     *)
(***************************************************************************)
C3_FileRunsOnlyAfterMarkedScan ==
    (Runnable /\ AbsPath(PyFile) \in executed) =>
        /\ HasInputsMarker
        /\ inputs_was_set
        /\ pc \in {"ec_inputs", "done"}
        /\ FirstStop = 0

(***************************************************************************)
(* C4 as claimed.  With the data-inputs flag set: if the loaded file has   *)
(* INPUTS, the inputs line is in the output and the line binding the .ec   *)
(* target to the inputs target follows it at once; if it has not, nothing  *)
(* is written for data inputs.  The .ec-to-inputs line never stands        *)
(* anywhere but right after an inputs line.                                *)
(***************************************************************************)
C4_EcRuleOnlyAfterInputsRule ==
    Runnable =>
        /\ \A i \in 1..Len(stdout) :
              stdout[i] = EcInputsLine(PyFile) =>
                  i > 1 /\ StartsWith(stdout[i - 1], InputsPrefix)
        /\ (pc = "done" /\ exit_code = 0 /\ module.kind \in {"list", "str"}) =>
              \E i \in 1..(Len(stdout) - 1) :
                  /\ StartsWith(stdout[i], InputsPrefix)
                  /\ stdout[i + 1] = EcInputsLine(PyFile)
        /\ (pc = "done" /\ module.kind = "noattr") =>
              \A i \in 1..Len(stdout) :
                  ~StartsWith(stdout[i], InputsPrefix) /\ stdout[i] # EcInputsLine(PyFile)

(***************************************************************************)
(* C5 as claimed.  A file with no line recognized as an import and no      *)
(* data-inputs marker line: nothing on standard output, exit code 0.       *)
(***************************************************************************)
C5_Original ==
    (Runnable /\ ~HasImportLine /\ ~HasInputsMarker) =>
        /\ stdout = <<>>
        /\ pc = "done" => exit_code = 0

(***************************************************************************)
(* C5 as amended.  A file with no line recognized as an import, no         *)
(* data-inputs marker line and no test-definition marker line: nothing is  *)
(* ever written to standard output and the run ends with exit code 0.      *)
(***************************************************************************)
C5_PlainFileNoOutput ==
    (Runnable /\ ~HasImportLine /\ ~HasInputsMarker /\ TestMarkerLines = {}) =>
        /\ stdout = <<>>
        /\ stderr = <<>>
        /\ pc = "done" => exit_code = 0

\* a finished run on a file of two lines or more, none of them recognized
C5_Witness ==
    /\ Runnable
    /\ ~HasImportLine /\ ~HasInputsMarker /\ TestMarkerLines = {}
    /\ Len(content) >= 2
    /\ pc = "done"
    /\ exit_code = 0
    /\ line_number = Len(content) - 1

(***************************************************************************)
(* C6.  In a run that completes the scan, the output holds exactly one     *)
(* test-target line if at least one line of the file matches the           *)
(* test-definition marker, however many do, and none if no line matches.   *)
(***************************************************************************)
C6_OneTestLine ==
    ScanCompleted =>
        Occurrences(stdout, TestLine(PyFile)) = IF TestMarkerLines # {} THEN 1 ELSE 0

\* a run that ended well on a file with two marker lines or more, the first
\* of them not the last line of the file
C6_Witness ==
    /\ ScanCompleted
    /\ pc = "done"
    /\ exit_code = 0
    /\ Cardinality(TestMarkerLines) >= 2
    /\ ~MatchesHasTests(content[Len(content)])
    /\ Occurrences(stdout, TestLine(PyFile)) = 1

(***************************************************************************)
(* C7 as claimed.  A wrong argument count and a path that is no regular    *)
(* file each end the run with exit code 1, their message on standard       *)
(* error and nothing on standard output.                                   *)
(***************************************************************************)
C7_EarlyErrorsOnStderr ==
    (~Runnable /\ pc = "done") =>
        /\ exit_code = 1
        /\ stdout = <<>>
        /\ Len(stderr) = 1

(***************************************************************************)
(* C8 as claimed.  The module-not-found message names the line of the      *)
(* unresolved import counting the first line of the file as line 1, and    *)
(* the reference text without the whitespace around it.                    *)
(***************************************************************************)
C8_MessageCountsLinesFromOne ==
    (ReachesNotFound /\ pc = "done") =>
        LET ref == Scan.refs[Scan.stop] IN
        stderr = <<PyFile \o <<":">> \o Decimal(ref.line)
                   \o <<" ", "-", " ", "E", "r", "r", "o", "r", ",", " ", "m", "o", "d", "u", "l",
                       "e", " ", "n", "o", "t", " ", "f", "o", "u", "n", "d", ":",
                           " ">> \o ref.name>>

(***************************************************************************)
(* C9.  What follows "deps/<f>.inputs: " is the INPUTS entries in their    *)
(* order with exactly one space between neighbours: a list gives its       *)
(* entries, a string gives one entry for each of its characters.           *)
(***************************************************************************)
\* the entries the claim names for a loaded INPUTS value
ClaimedEntries(loaded) ==
    IF loaded.kind = "str" THEN [k \in 1..Len(loaded.val) |-> <<loaded.val[k]>>]
    ELSE loaded.val

\* where entry i starts in the text: after the earlier entries and one
\* character for each of them
RECURSIVE EntryStart(_, _)
EntryStart(entries, i) ==
    IF i = 1 THEN 1 ELSE EntryStart(entries, i - 1) + Len(entries[i - 1]) + 1

\* text is the entries in order, neighbours one space apart, nothing else
IsSpaceJoined(text, entries) ==
    LET n == Len(entries) IN
    /\ Len(text) = IF n = 0 THEN 0 ELSE EntryStart(entries, n) + Len(entries[n]) - 1
    /\ \A i \in 1..n :
          /\ SubSeq(text, EntryStart(entries, i), EntryStart(entries, i) + Len(entries[i]) - 1)
             = entries[i]
          /\ i > 1 => text[EntryStart(entries, i) - 1] = " "

InputsLinesWritten == SelectSeq(stdout, LAMBDA l : StartsWith(l, InputsPrefix))

C9_EntriesSpaceJoined ==
    (Runnable /\ module.kind \in {"list", "str"}) =>
        /\ Len(InputsLinesWritten) = 1
        /\ IsSpaceJoined(SubSeq(InputsLinesWritten[1], Len(InputsPrefix) + 1,
                                Len(InputsLinesWritten[1])),
                         ClaimedEntries(module))

\* INPUTS = "ab" gave the line deps/f.py.inputs: a b
C9_Witness ==
    /\ pc = "done"
    /\ module = [kind |-> "str", val |-> <<"a", "b">>]
    /\ \E i \in 1..Len(stdout) : stdout[i] = <<"d", "e", "p", "s", "/", "f", ".", "p", "y", ".",
        "i", "n", "p", "u", "t", "s", ":", " ", "a", " ", "b">>

(***************************************************************************)
(* C10.  The dependency rules stand on standard output in the order of     *)
(* the references in the source, line by line and within a plain import    *)
(* from left to right, each reference with its own rules and nothing       *)
(* deduplicated.                                                           *)
(***************************************************************************)
C10_RulesInSourceOrder ==
    Runnable =>
        /\ pc \in {"scan", "import"} => IsPrefix(stdout, RulesOfScan)
        /\ pc \in {"inputs", "ec_inputs", "done"} => IsPrefix(RulesOfScan, stdout)
        /\ (pc = "scan" /\ line_number + 1 = Len(content)) => stdout = RulesOfScan

\* the file "import c,o, m" / "import m": the rules of c, of m and of m
\* again, in that order
C10_Witness ==
    /\ pc = "done"
    /\ exit_code = 0
    /\ content = <<<<"i", "m", "p", "o", "r", "t", " ", "c", ",", "o", ",", " ", "m",
        "\n">>, <<"i", "m", "p", "o", "r", "t", " ", "m", "\n">>>>
    /\ stdout = <<<<"d", "e", "p", "s", "/", "f", ".", "p", "y", ".", "s", "c", ":", " ", "d",
        "e", "p", "s", "/", "d", "/", "c", ".", "p", "y", ".", "s", "c">>, <<"d", "e", "p", "s",
            "/", "f", ".", "p", "y", ".", "e", "c", ":", " ", "d", "e", "p", "s", "/", "d", "/",
                "c", ".", "p", "y", ".", "e", "c">>,
                  <<"d", "e", "p", "s", "/", "f", ".", "p", "y", ".", "s", "c", ":", " ", "d",
                      "e", "p", "s", "/", "m", ".", "p", "y", ".", "s", "c">>, <<"d", "e", "p",
                          "s", "/", "f", ".", "p", "y", ".", "e", "c", ":", " ", "d", "e", "p",
                              "s", "/", "m", ".", "p", "y", ".", "e", "c">>,
                  <<"d", "e", "p", "s", "/", "f", ".", "p", "y", ".", "s", "c", ":", " ", "d",
                      "e", "p", "s", "/", "m", ".", "p", "y", ".", "s", "c">>, <<"d", "e", "p",
                          "s", "/", "f", ".", "p", "y", ".", "e", "c", ":", " ", "d", "e", "p",
                              "s", "/", "m", ".", "p", "y", ".", "e", "c">>>>

====
